---- MODULE Spec2Model ----
(***************************************************************************)
(* Model of ngrampy/LineFileInMemory.py: the in-memory replacement of      *)
(* LineFile.  A dataset keeps its main data in the attribute _lines and    *)
(* its temporary data in the attribute _tmplines; both hold either a list  *)
(* of lines or (after write(..., lazy=True)) a single-pass generator.      *)
(*                                                                         *)
(* Text (lines, column names, file names) is a sequence of character       *)
(* codes, so that strip, split, int() and string comparison are computed   *)
(* and not assumed.                                                        *)
(***************************************************************************)
EXTENDS Integers, Sequences, FiniteSets, TLC

VARIABLES
    ds,     \* ds[d]: the attributes of dataset object d (LineFileInMemory)
    gens,   \* gens[g]: the items generator object g has not yielded yet
    op,     \* the call made last: method name, receiver and arguments
    ret     \* what that call returned or raised

vars == <<ds, gens, op, ret>>

-----------------------------------------------------------------------------
(* Bounds and input sets *)

\* longest primary region the sort-only specification starts from
MaxLen == 3

\* the dataset objects: 1 is constructed, 2 is what copy() returns
DS == {1, 2}

\* generator objects that can be alive at once: one per region of a dataset,
\* and the one being handed to write()
GenIds == 1 .. (2 * Cardinality(DS) + 1)

\* "3 b", "1 a", "2 a"
L_3b == <<51, 32, 98>>
L_1a == <<49, 32, 97>>
L_2a == <<50, 32, 97>>
\* "5 zebra", "5 apple"
L_5zebra == <<53, 32, 122, 101, 98, 114, 97>>
L_5apple == <<53, 32, 97, 112, 112, 108, 101>>
\* " 10 a\n": leading blank, two-digit number, trailing newline
L_10a_nl == <<32, 49, 48, 32, 97, 10>>
\* "x": one field, not a number
L_x == <<120>>
\* "3 b\n", "1 a\n", "x\n" as a file yields them
L_3b_nl == <<51, 32, 98, 10>>
L_1a_nl == <<49, 32, 97, 10>>
L_x_nl == <<120, 10>>
\* "i 0\n": a line of an index file
L_i0_nl == <<105, 32, 48, 10>>

LinePool == {L_3b, L_1a, L_2a, L_5zebra, L_5apple, L_10a_nl}

\* the sequences handed to write()
Inputs == { <<L_3b, L_1a, L_2a>>, <<L_1a, L_x>> }

\* the sequences handed to write() where two datasets are followed
CopyInputs == { <<L_1a, L_x>> }

\* "word", "count", "missing"
N_word == <<119, 111, 114, 100>>
N_count == <<99, 111, 117, 110, 116>>
N_missing == <<109, 105, 115, 115, 105, 110, 103>>
\* "word count"
H_word_count == <<119, 111, 114, 100, 32, 99, 111, 117, 110, 116>>

\* a column reference is an int or a str
Col(n) == [isint |-> TRUE, n |-> n, s |-> <<>>]
Name(s) == [isint |-> FALSE, n |-> 0, s |-> s]

\* the keys handed to sort()
SortKeys == { <<Col(0)>>, <<Col(1)>>, <<Name(N_count)>>, <<Name(N_missing)>> }

\* the keys handed to sort() where sorting is followed on its own
PureSortKeys == { <<Col(0)>>, <<Name(N_count), Col(0)>> }

\* the keys handed to sort() where two datasets are followed
CopySortKeys == { <<Col(1)>> }

\* dtype: int, or unicode (the default, text)
DTypes == {"int", "unicode"}

\* "a.txt", "b.txt", "a.idf"
F_a_txt == <<97, 46, 116, 120, 116>>
F_b_txt == <<98, 46, 116, 120, 116>>
F_a_idf == <<97, 46, 105, 100, 102>>
\* ".idf"
IdfSuffix == <<46, 105, 100, 102>>

\* the files argument of the constructor: one name (str) or a list of names
FilesArgs == { [isstr |-> TRUE, str |-> F_a_txt, list |-> <<>>],
               [isstr |-> FALSE, str |-> <<>>, list |-> <<F_a_txt>>],
               [isstr |-> FALSE, str |-> <<>>,
                list |-> <<F_b_txt, F_a_idf, F_a_txt>>],
               [isstr |-> FALSE, str |-> <<>>, list |-> <<F_a_idf>>] }

\* what the files hold, as iterating an open file yields it (fh.open)
file_lines(f) ==
    CASE f = F_a_txt -> <<L_3b_nl, L_1a_nl>>
      [] f = F_b_txt -> <<L_x_nl>>
      [] f = F_a_idf -> <<L_i0_nl>>

\* the header argument: None, one str, or a list of names
HeaderArgs == { [kind |-> "none", str |-> <<>>, list |-> <<>>],
                [kind |-> "str", str |-> H_word_count, list |-> <<>>],
                [kind |-> "list", str |-> <<>>, list |-> <<N_word, N_count>>] }

-----------------------------------------------------------------------------
(* Text primitives of Python, computed on character codes *)

\* str.strip() and str.split() with no argument work on these characters
Whitespace == {9, 10, 11, 12, 13, 32}

Digits == 48 .. 57

RECURSIVE lstrip(_)
lstrip(s) ==
    IF s # <<>> /\ Head(s) \in Whitespace THEN lstrip(Tail(s)) ELSE s

RECURSIVE rstrip(_)
rstrip(s) ==
    IF s # <<>> /\ s[Len(s)] \in Whitespace
    THEN rstrip(SubSeq(s, 1, Len(s) - 1))
    ELSE s

strip(s) == rstrip(lstrip(s))

RECURSIVE split_from(_, _, _)
split_from(s, cur, acc) ==
    IF s = <<>>
    THEN IF cur = <<>> THEN acc ELSE Append(acc, cur)
    ELSE IF Head(s) \in Whitespace
         THEN split_from(Tail(s), <<>>,
                         IF cur = <<>> THEN acc ELSE Append(acc, cur))
         ELSE split_from(Tail(s), Append(cur, Head(s)), acc)

split(s) == split_from(s, <<>>, <<>>)

endswith(s, suffix) ==
    /\ Len(s) >= Len(suffix)
    /\ SubSeq(s, Len(s) - Len(suffix) + 1, Len(s)) = suffix

\* comparison of two str values: by character code, a prefix is smaller
RECURSIVE str_lt(_, _)
str_lt(a, b) ==
    IF b = <<>> THEN FALSE
    ELSE IF a = <<>> THEN TRUE
    ELSE IF Head(a) # Head(b) THEN Head(a) < Head(b)
    ELSE str_lt(Tail(a), Tail(b))

\* int(tok): an optional sign followed by one or more digits
int_digits(tok) ==
    IF tok # <<>> /\ Head(tok) \in {43, 45} THEN Tail(tok) ELSE tok

int_ok(tok) ==
    /\ int_digits(tok) # <<>>
    /\ \A i \in 1 .. Len(int_digits(tok)) : int_digits(tok)[i] \in Digits

RECURSIVE digits_value(_)
digits_value(s) ==
    IF s = <<>> THEN 0
    ELSE 10 * digits_value(SubSeq(s, 1, Len(s) - 1)) + (s[Len(s)] - 48)

int_value(tok) ==
    IF tok # <<>> /\ Head(tok) = 45
    THEN 0 - digits_value(int_digits(tok))
    ELSE digits_value(int_digits(tok))

-----------------------------------------------------------------------------
(* Helpers inherited from LineFile and imported from helpers *)

\* self.header: None, or the list of column names
NoHeader == [isNone |-> TRUE, names |-> <<>>]
Header(names) == [isNone |-> FALSE, names |-> names]

\* list.index(x): the first position of x, counted from 0
index_of(names, s) ==
    (CHOOSE i \in 1 .. Len(names) :
        /\ names[i] = s
        /\ \A j \in 1 .. (i - 1) : names[j] # s) - 1

\* LineFile.to_column_number on one reference
column_ok(header, k) ==
    \/ k.isint
    \/ /\ ~header.isNone
       /\ \E i \in 1 .. Len(header.names) : header.names[i] = k.s

column_number(header, k) ==
    IF k.isint THEN k.n ELSE index_of(header.names, k.s)

\* listifnot(self.to_column_number(keys)): order and duplicates are kept
to_column_number_ok(header, keys) ==
    \A i \in 1 .. Len(keys) : column_ok(header, keys[i])

to_column_number(header, keys) ==
    [i \in 1 .. Len(keys) |-> column_number(header, keys[i])]

\* dtype(tok)
cast_ok(tok, dtype) == dtype = "unicode" \/ int_ok(tok)

cast(tok, dtype) == IF dtype = "int" THEN int_value(tok) ELSE tok

\* LineFile.extract_columns(line, keys, dtype): which error it raises
extract_error(line, keys, dtype) ==
    LET parts == split(line)
        bad == {i \in 1 .. Len(keys) :
                   \/ keys[i] >= Len(parts)
                   \/ ~cast_ok(parts[keys[i] + 1], dtype)}
        first == CHOOSE i \in bad : \A j \in bad : i <= j
    IN  IF bad = {} THEN "ok"
        ELSE IF keys[first] >= Len(parts) THEN "ConfigurationError"
        ELSE "CastError"

\* LineFile.extract_columns(line, keys, dtype): the list it returns
extract_columns(line, keys, dtype) ==
    LET parts == split(line)
    IN  [i \in 1 .. Len(keys) |-> cast(parts[keys[i] + 1], dtype)]

-----------------------------------------------------------------------------
(* Sorting *)

\* a key without the line: lines with equal columns compare equal
get_sort_key_columns_only(l, keys, dtype) ==
    Append(extract_columns(l, keys, dtype), <<>>)

\* the key of line l: the cast columns, then the line itself
get_sort_key(l, keys, dtype) ==
    Append(extract_columns(l, keys, dtype), l)

\* comparison of two sort keys, as Python compares two lists: the first
\* position where they differ decides; the last position holds the line
key_lt(a, b, dtype) ==
    LET diff == {i \in 1 .. Len(a) : a[i] # b[i]}
        first == CHOOSE i \in diff : \A j \in diff : i <= j
    IN  /\ diff # {}
        /\ IF first = Len(a) \/ dtype = "unicode"
           THEN str_lt(a[first], b[first])
           ELSE a[first] < b[first]

key_le(a, b, dtype) == ~key_lt(b, a, dtype)

\* list.sort computes the key of every item once, before it compares
RECURSIVE sort_keys(_, _, _)
sort_keys(items, keys, dtype) ==
    IF items = <<>> THEN <<>>
    ELSE <<get_sort_key(Head(items), keys, dtype)>>
         \o sort_keys(Tail(items), keys, dtype)

\* where item n goes among the sorted positions acc: after every position
\* whose key is not greater
insert_sorted(acc, n, ks, dtype) ==
    LET after == {p \in 1 .. Len(acc) : key_lt(ks[n], ks[acc[p]], dtype)}
        pos == IF after = {} THEN Len(acc) + 1
               ELSE CHOOSE p \in after : \A q \in after : p <= q
    IN  SubSeq(acc, 1, pos - 1) \o <<n>> \o SubSeq(acc, pos, Len(acc))

\* the positions 1 .. n of the items in ascending order of their keys
RECURSIVE sorted_order(_, _, _)
sorted_order(n, ks, dtype) ==
    IF n = 0 THEN <<>>
    ELSE insert_sorted(sorted_order(n - 1, ks, dtype), n, ks, dtype)

\* a sort that orders the wrong way round
sorted_descending(items, keys, dtype) ==
    LET order == sorted_order(Len(items), sort_keys(items, keys, dtype),
                              dtype)
    IN  [p \in 1 .. Len(items) |-> items[order[Len(items) + 1 - p]]]

\* a sort that keeps one line for each value of the key columns
sorted_unique(items, keys, dtype) ==
    LET order == sorted_order(Len(items), sort_keys(items, keys, dtype),
                              dtype)
        asc == [p \in 1 .. Len(items) |-> items[order[p]]]
        keep == {p \in 1 .. Len(asc) :
                    \A q \in 1 .. (p - 1) :
                       extract_columns(asc[q], keys, dtype)
                          # extract_columns(asc[p], keys, dtype)}
        is_kept(l) == \E p \in keep : asc[p] = l
    IN  SelectSeq(asc, is_kept)

\* sorted(items, key=get_sort_key): a stable ascending sort
sorted(items, keys, dtype) ==
    LET order == sorted_order(Len(items), sort_keys(items, keys, dtype),
                              dtype)
    IN  [p \in 1 .. Len(items) |-> items[order[p]]]

-----------------------------------------------------------------------------
(* The values an attribute holds, and iteration over them *)

\* a list object with these items
List(items) == [kind |-> "list", items |-> items, id |-> 0]

\* a reference to generator object g (a single-pass iterable)
Gen(g) == [kind |-> "gen", items |-> <<>>, id |-> g]

\* the attribute has never been assigned
Unset == [kind |-> "unset", items |-> <<>>, id |-> 0]

\* what running iter(v) to exhaustion yields
iterate(v, g) == IF v.kind = "gen" THEN g[v.id] ELSE v.items

\* the generators after iter(v) has been run to exhaustion
drained(v, g) == IF v.kind = "gen" THEN [g EXCEPT ![v.id] = <<>>] ELSE g

\* a dataset object that does not exist (yet)
NoDataset ==
    [exists |-> FALSE, _lines |-> Unset, _tmp_lines |-> Unset,
     _tmplines |-> Unset, files |-> <<>>, header |-> NoHeader]

\* the result of a call: the receiver and the generators after it, and
\* what it returned (status "ok") or raised
Result(self, g, status, value) ==
    [self |-> self, gens |-> g, ret |-> [status |-> status, value |-> value]]

None == <<>>

-----------------------------------------------------------------------------
(* The methods of LineFileInMemory *)

\* a load that reads the index files as well
RECURSIVE load_files_all(_)
load_files_all(flist) ==
    IF flist = <<>> THEN <<>>
    ELSE file_lines(Head(flist)) \o load_files_all(Tail(flist))

RECURSIVE load_files(_)
load_files(flist) ==
    IF flist = <<>> THEN <<>>
    ELSE IF endswith(Head(flist), IdfSuffix)
         THEN load_files(Tail(flist))
         ELSE file_lines(Head(flist)) \o load_files(Tail(flist))

\* a constructor that keeps a header given as one str as a single name
init_header_unsplit(files, header) ==
    LET flist == IF files.isstr THEN <<files.str>> ELSE files.list
    IN  [exists |-> TRUE,
         _lines |-> List(load_files(flist)),
         _tmp_lines |-> List(<<>>),
         _tmplines |-> Unset,
         files |-> flist,
         header |-> CASE header.kind = "str" -> Header(<<header.str>>)
                      [] header.kind = "list" -> Header(header.list)
                      [] header.kind = "none" -> NoHeader]

__init__(files, header) ==
    LET flist == IF files.isstr THEN <<files.str>> ELSE files.list
    IN  [exists |-> TRUE,
         _lines |-> List(load_files(flist)),
         _tmp_lines |-> List(<<>>),
         _tmplines |-> Unset,
         files |-> flist,
         header |-> CASE header.kind = "str" -> Header(split(header.str))
                      [] header.kind = "list" -> Header(header.list)
                      [] header.kind = "none" -> NoHeader]

\* a write whose staged branch assigns the attribute the constructor
\* initialises instead of the one read(tmp=True) reads
write_tmp_lines(self, g, it, tmp, lazy) ==
    LET stored == IF lazy THEN it ELSE List(iterate(it, g))
        g1 == IF lazy THEN g ELSE drained(it, g)
    IN  IF tmp
        THEN Result([self EXCEPT !._tmp_lines = stored], g1, "ok", None)
        ELSE Result([self EXCEPT !._lines = stored], g1, "ok", None)

write(self, g, it, tmp, lazy) ==
    LET stored == IF lazy THEN it ELSE List(iterate(it, g))
        g1 == IF lazy THEN g ELSE drained(it, g)
    IN  IF tmp
        THEN Result([self EXCEPT !._tmplines = stored], g1, "ok", None)
        ELSE Result([self EXCEPT !._lines = stored], g1, "ok", None)

\* read returns iter(...); the caller runs it to exhaustion
read(self, g, tmp) ==
    IF tmp
    THEN IF self._tmplines.kind = "unset"
         THEN Result(self, g, "AttributeError", None)
         ELSE Result(self, drained(self._tmplines, g), "ok",
                     iterate(self._tmplines, g))
    ELSE Result(self, drained(self._lines, g), "ok", iterate(self._lines, g))

\* a copy that shares the attribute values with the original (copy.copy)
copy_shallow(self, g) == Result(self, g, "ok", None)

\* deepcopy duplicates lists and cannot duplicate a generator
copy(self, g) ==
    IF self._lines.kind = "gen" \/ self._tmplines.kind = "gen"
    THEN Result(NoDataset, g, "TypeError", None)
    ELSE Result(self, g, "ok", None)

get_new_path(self, g) == Result(self, g, "NotImplementedError", None)

\* a move that adds primary to what staged holds
mv_tmp_merge(self, g) ==
    Result([self EXCEPT
               !._tmplines = List(iterate(self._tmplines, g)
                                  \o iterate(self._lines, g)),
               !._lines = List(<<>>)],
           drained(self._lines, g), "ok", None)

mv_tmp(self, g) ==
    Result([self EXCEPT !._tmplines = self._lines, !._lines = List(<<>>)],
           g, "ok", None)

\* a rename that does nothing and returns
rename_pass(self, g) == Result(self, g, "ok", None)

rename(self, g) == Result(self, g, "NotImplementedError", None)

\* a clear of the attribute the constructor initialises
rm_tmp_tmp_lines(self, g) ==
    Result([self EXCEPT !._tmp_lines = List(<<>>)], g, "ok", None)

rm_tmp(self, g) ==
    Result([self EXCEPT !._tmplines = List(<<>>)], g, "ok", None)

cp(self, g) == Result(self, g, "NotImplementedError", None)

cat(self, g) == Result(self, g, "NotImplementedError", None)

delete(self, g) ==
    Result([self EXCEPT !._lines = List(<<>>), !._tmplines = List(<<>>)],
           g, "ok", None)

\* a delete_tmp that clears what delete clears
delete_tmp_both(self, g) ==
    Result([self EXCEPT !._lines = List(<<>>), !._tmplines = List(<<>>)],
           g, "ok", None)

delete_tmp(self, g) ==
    Result([self EXCEPT !._tmplines = List(<<>>)], g, "ok", None)

\* a lines that yields the lines as they are stored
lines_raw(self, g, tmp, parts) ==
    LET r == read(self, g, tmp)
        its == r.ret.value
    IN  IF r.ret.status # "ok" THEN r
        ELSE IF parts
        THEN Result(r.self, r.gens, "ok",
                    [i \in 1 .. Len(its) |-> split(its[i])])
        ELSE Result(r.self, r.gens, "ok", its)

\* lines returns a generator over read(tmp); the caller runs it to exhaustion
lines(self, g, tmp, parts) ==
    LET r == read(self, g, tmp)
        its == r.ret.value
    IN  IF r.ret.status # "ok" THEN r
        ELSE IF parts
        THEN Result(r.self, r.gens, "ok",
                    [i \in 1 .. Len(its) |-> split(strip(its[i]))])
        ELSE Result(r.self, r.gens, "ok",
                    [i \in 1 .. Len(its) |-> strip(its[i])])

\* a sort that adds its output to the region instead of replacing it
sort_extend(self, g, keys, dtype, reverse) ==
    IF ~to_column_number_ok(self.header, keys)
    THEN Result(self, g, "ConfigurationError", None)
    ELSE
    LET cols == to_column_number(self.header, keys)
        r == lines(self, g, FALSE, FALSE)
        ls == r.ret.value
        bad == {i \in 1 .. Len(ls) : extract_error(ls[i], cols, dtype) # "ok"}
        first == CHOOSE i \in bad : \A j \in bad : i <= j
    IN  IF bad # {}
        THEN Result(r.self, r.gens, extract_error(ls[first], cols, dtype),
                    None)
        ELSE write(r.self, r.gens,
                   List(iterate(self._lines, g) \o sorted(ls, cols, dtype)),
                   FALSE, FALSE)

\* sorted() first collects every line of lines(tmp=False), then computes the
\* keys; the reverse argument is accepted and not used
sort(self, g, keys, dtype, reverse) ==
    IF ~to_column_number_ok(self.header, keys)
    THEN Result(self, g, "ConfigurationError", None)
    ELSE
    LET cols == to_column_number(self.header, keys)
        r == lines(self, g, FALSE, FALSE)
        ls == r.ret.value
        bad == {i \in 1 .. Len(ls) : extract_error(ls[i], cols, dtype) # "ok"}
        first == CHOOSE i \in bad : \A j \in bad : i <= j
    IN  IF bad # {}
        THEN Result(r.self, r.gens, extract_error(ls[first], cols, dtype),
                    None)
        ELSE write(r.self, r.gens, List(sorted(ls, cols, dtype)),
                   FALSE, FALSE)

\* a length that counts the temporary lines
len_of_tmplines(self, g) ==
    Result(self, drained(self._tmplines, g), "ok",
           Len(iterate(self._tmplines, g)))

__len__(self, g) ==
    Result(self, drained(self._lines, g), "ok", Len(iterate(self._lines, g)))

-----------------------------------------------------------------------------
(* State machine: one action per method call *)

\* the generator objects some attribute of some dataset refers to
referenced(dsv) ==
    {dsv[d]._lines.id : d \in {e \in DS : dsv[e]._lines.kind = "gen"}}
    \cup
    {dsv[d]._tmplines.id : d \in {e \in DS : dsv[e]._tmplines.kind = "gen"}}

\* the attributes that can refer to a generator, in a fixed order
Slots == 1 .. (2 * Cardinality(DS))

slot(dsv, k) ==
    IF k % 2 = 1 THEN dsv[(k + 1) \div 2]._lines ELSE dsv[k \div 2]._tmplines

slot_ref(dsv, k) == IF slot(dsv, k).kind = "gen" THEN slot(dsv, k).id ELSE 0

\* object identities carry no meaning: generators are numbered in the order
\* of the first attribute that refers to them
canon_id(dsv, h) ==
    LET first == CHOOSE k \in Slots :
                     /\ slot_ref(dsv, k) = h
                     /\ \A j \in 1 .. (k - 1) : slot_ref(dsv, j) # h
    IN  Cardinality({slot_ref(dsv, j) : j \in 1 .. (first - 1)} \ {0}) + 1

canon_value(dsv, v) ==
    IF v.kind = "gen" THEN Gen(canon_id(dsv, v.id)) ELSE v

canon_ds(dsv) ==
    [d \in DS |-> [dsv[d] EXCEPT !._lines = canon_value(dsv, @),
                                  !._tmplines = canon_value(dsv, @)]]

\* garbage collection: a generator nothing refers to is gone
collect(g, dsv) ==
    [i \in GenIds |->
        IF \E h \in referenced(dsv) : canon_id(dsv, h) = i
        THEN g[CHOOSE h \in referenced(dsv) : canon_id(dsv, h) = i]
        ELSE <<>>]

\* the generator object a new generator expression gets
fresh == CHOOSE i \in GenIds : i \notin referenced(ds)

\* the arguments of a constructor call that names no file
NoFiles == [isstr |-> FALSE, str |-> <<>>, list |-> <<>>]
NoHeaderArg == [kind |-> "none", str |-> <<>>, list |-> <<>>]

Op(name, d) ==
    [name |-> name, d |-> d, tmp |-> FALSE, lazy |-> FALSE, single |-> FALSE,
     it |-> <<>>, keys |-> <<>>, dtype |-> "unicode", reverse |-> FALSE,
     parts |-> FALSE, files |-> NoFiles, header |-> NoHeaderArg]

\* the call on dataset d returned or raised: its effects become the state
Commit(d, res, o) ==
    /\ ds' = canon_ds([ds EXCEPT ![d] = res.self])
    /\ gens' = collect(res.gens, [ds EXCEPT ![d] = res.self])
    /\ op' = o
    /\ ret' = res.ret

Init ==
    /\ \E files \in FilesArgs, header \in HeaderArgs :
          /\ ds = [d \in DS |-> IF d = 1 THEN __init__(files, header)
                                ELSE NoDataset]
          /\ op = [Op("__init__", 1) EXCEPT !.files = files,
                                            !.header = header]
    /\ gens = [i \in GenIds |-> <<>>]
    /\ ret = [status |-> "ok", value |-> None]

\* write(it, tmp, lazy); the caller passes a list, or a generator (single)
Write(d, inputs) ==
    \E S \in inputs, single \in BOOLEAN, tmp \in BOOLEAN, lazy \in BOOLEAN :
        LET it == IF single THEN Gen(fresh) ELSE List(S)
            g0 == IF single THEN [gens EXCEPT ![fresh] = S] ELSE gens
        IN  /\ ds[d].exists
            /\ Commit(d, write(ds[d], g0, it, tmp, lazy),
                      [Op("write", d) EXCEPT !.tmp = tmp, !.lazy = lazy,
                                             !.single = single, !.it = S])

Read(d) ==
    \E tmp \in BOOLEAN :
        /\ ds[d].exists
        /\ Commit(d, read(ds[d], gens, tmp),
                  [Op("read", d) EXCEPT !.tmp = tmp])

Lines(d) ==
    \E tmp \in BOOLEAN, parts \in BOOLEAN :
        /\ ds[d].exists
        /\ Commit(d, lines(ds[d], gens, tmp, parts),
                  [Op("lines", d) EXCEPT !.tmp = tmp, !.parts = parts])

\* the other dataset variable is bound to what copy() returns
Copy(d) ==
    LET res == copy(ds[d], gens)
        other == CHOOSE e \in DS : e # d
    IN  /\ ds[d].exists
        /\ ds' = IF res.ret.status = "ok"
                 THEN canon_ds([ds EXCEPT ![other] = res.self])
                 ELSE ds
        /\ gens' = IF res.ret.status = "ok"
                   THEN collect(res.gens, [ds EXCEPT ![other] = res.self])
                   ELSE gens
        /\ op' = Op("copy", d)
        /\ ret' = res.ret

GetNewPath(d) ==
    ds[d].exists /\ Commit(d, get_new_path(ds[d], gens), Op("get_new_path", d))

MvTmp(d) ==
    ds[d].exists /\ Commit(d, mv_tmp(ds[d], gens), Op("mv_tmp", d))

Rename(d) ==
    ds[d].exists /\ Commit(d, rename(ds[d], gens), Op("rename", d))

RmTmp(d) ==
    ds[d].exists /\ Commit(d, rm_tmp(ds[d], gens), Op("rm_tmp", d))

Cp(d) ==
    ds[d].exists /\ Commit(d, cp(ds[d], gens), Op("cp", d))

Cat(d) ==
    ds[d].exists /\ Commit(d, cat(ds[d], gens), Op("cat", d))

Delete(d) ==
    ds[d].exists /\ Commit(d, delete(ds[d], gens), Op("delete", d))

DeleteTmp(d) ==
    ds[d].exists /\ Commit(d, delete_tmp(ds[d], gens), Op("delete_tmp", d))

Sort(d, sortkeys) ==
    \E keys \in sortkeys, dtype \in DTypes, reverse \in BOOLEAN :
        /\ ds[d].exists
        /\ Commit(d, sort(ds[d], gens, keys, dtype, reverse),
                  [Op("sort", d) EXCEPT !.keys = keys, !.dtype = dtype,
                                        !.reverse = reverse])

Length(d) ==
    ds[d].exists /\ Commit(d, __len__(ds[d], gens), Op("__len__", d))

\* one dataset object and every method but copy
Next ==
    \/ Write(1, Inputs)
    \/ Read(1)
    \/ Lines(1)
    \/ GetNewPath(1)
    \/ MvTmp(1)
    \/ Rename(1)
    \/ RmTmp(1)
    \/ Cp(1)
    \/ Cat(1)
    \/ Delete(1)
    \/ DeleteTmp(1)
    \/ Sort(1, SortKeys)
    \/ Length(1)

Spec == Init /\ [][Next]_vars

-----------------------------------------------------------------------------
(* Sorting on its own: every primary region of up to MaxLen lines *)

BSeq(S, n) == UNION {[1 .. k -> S] : k \in 0 .. n}

InitSort ==
    /\ \E S \in BSeq(LinePool, MaxLen),
          header \in {h \in HeaderArgs : h.kind # "str"} :
          /\ ds = [d \in DS |->
                     IF d = 1
                     THEN write(__init__(NoFiles, header),
                                [i \in GenIds |-> <<>>], List(S), FALSE,
                                FALSE).self
                     ELSE NoDataset]
          /\ op = [Op("write", 1) EXCEPT !.it = S]
    /\ gens = [i \in GenIds |-> <<>>]
    /\ ret = [status |-> "ok", value |-> None]

NextSort == Sort(1, PureSortKeys)

SpecSort == InitSort /\ [][NextSort]_vars

-----------------------------------------------------------------------------
(* A dataset and its copy: the methods that change or consume a region,    *)
(* called on either of the two objects                                     *)

InitCopy ==
    /\ ds = [d \in DS |->
               IF d = 1
               THEN __init__([isstr |-> TRUE, str |-> F_a_txt, list |-> <<>>],
                             [kind |-> "str", str |-> H_word_count,
                              list |-> <<>>])
               ELSE NoDataset]
    /\ gens = [i \in GenIds |-> <<>>]
    /\ op = [Op("__init__", 1) EXCEPT
                !.files = [isstr |-> TRUE, str |-> F_a_txt, list |-> <<>>],
                !.header = [kind |-> "str", str |-> H_word_count,
                            list |-> <<>>]]
    /\ ret = [status |-> "ok", value |-> None]

NextCopy ==
    \E d \in DS :
        \/ Write(d, CopyInputs)
        \/ Read(d)
        \/ Copy(d)
        \/ MvTmp(d)
        \/ RmTmp(d)
        \/ Delete(d)
        \/ DeleteTmp(d)
        \/ Sort(d, CopySortKeys)
        \/ Length(d)

SpecCopy == InitCopy /\ [][NextCopy]_vars

-----------------------------------------------------------------------------
(* What a caller observes *)

\* what read() of the primary region of dataset d would yield
primary(dsv, g, d) == iterate(dsv[d]._lines, g)

\* what read(tmp=True) of dataset d would yield
staged(dsv, g, d) == iterate(dsv[d]._tmplines, g)

count(s, x) == Cardinality({i \in 1 .. Len(s) : s[i] = x})

same_lines(s, t) ==
    /\ Len(s) = Len(t)
    /\ \A i \in 1 .. Len(s) : count(s, s[i]) = count(t, s[i])

stripped(s) == [i \in 1 .. Len(s) |-> strip(s[i])]

reversed(s) == [i \in 1 .. Len(s) |-> s[Len(s) + 1 - i]]

\* the step is a call of sort on dataset 1 that returned
sort_returned == op'.name = "sort" /\ op'.d = 1 /\ ret'.status = "ok"

-----------------------------------------------------------------------------
(* Properties of sort *)

\* C1: sort with reverse=false on a materialized primary region leaves in
\* primary a list of all its (stripped) lines in which every adjacent pair
\* (a, b) has key(a) <= key(b), the key being the cast columns in the given
\* order followed by the line.
C1_SortAscending ==
    [][ (sort_returned /\ ~op'.reverse /\ ds[1]._lines.kind = "list") =>
          LET cols == to_column_number(ds[1].header, op'.keys)
              after == ds'[1]._lines
          IN  /\ after.kind = "list"
              /\ same_lines(after.items, stripped(ds[1]._lines.items))
              /\ \A i \in 1 .. (Len(after.items) - 1) :
                    key_le(get_sort_key(after.items[i], cols, op'.dtype),
                           get_sort_key(after.items[i + 1], cols, op'.dtype),
                           op'.dtype) ]_vars

C1_Witness ==
    /\ op.name = "sort" /\ ret.status = "ok" /\ ~op.reverse
    /\ op.keys = <<Col(0)>> /\ op.dtype = "int"
    /\ ds[1]._lines = List(<<L_1a, L_5apple, strip(L_10a_nl)>>)

\* C2: sort with reverse=true leaves in primary the reverse of what sort
\* with reverse=false leaves for the same primary, keys and dtype.
C2_ReverseInverts ==
    [][ (sort_returned /\ op'.reverse) =>
          ds'[1]._lines.items =
             reversed(sort(ds[1], gens, op'.keys, op'.dtype,
                           FALSE).self._lines.items) ]_vars

\* the orders in which the lines of s can be stored
permutations(s) ==
    {[i \in 1 .. Len(s) |-> s[p[i]]] :
        p \in {q \in [1 .. Len(s) -> 1 .. Len(s)] :
                  \A i, j \in 1 .. Len(s) : q[i] = q[j] => i = j}}

\* C9: the outcome of sort depends on the lines of primary and not on the
\* order they were stored in: sorting any reordering of primary with the same
\* keys, dtype and reverse flag leaves the same list; lines whose key columns
\* are all equal come out in the order of their text.
C9_SortOrderIndependent ==
    [][ (sort_returned /\ ds[1]._lines.kind = "list") =>
          LET cols == to_column_number(ds[1].header, op'.keys)
              after == ds'[1]._lines.items
          IN  /\ \A t \in permutations(ds[1]._lines.items) :
                    sort([ds[1] EXCEPT !._lines = List(t)], gens, op'.keys,
                         op'.dtype, op'.reverse).self._lines = ds'[1]._lines
              /\ \A i, j \in 1 .. Len(after) :
                    (/\ i < j
                     /\ extract_columns(after[i], cols, op'.dtype)
                          = extract_columns(after[j], cols, op'.dtype))
                    => ~str_lt(after[j], after[i]) ]_vars

C9_Witness ==
    /\ op.name = "sort" /\ ret.status = "ok"
    /\ op.keys = <<Col(0)>> /\ op.dtype = "int"
    /\ ds[1]._lines = List(<<L_1a, L_5apple, L_5zebra>>)

\* C10: sort is idempotent: after sort has returned, the same call again
\* returns and leaves the same list in primary.
C10_SortIdempotent ==
    (op.name = "sort" /\ op.d = 1 /\ ret.status = "ok") =>
        LET again == sort(ds[1], gens, op.keys, op.dtype, op.reverse)
        IN  /\ again.ret.status = "ok"
            /\ again.self._lines = ds[1]._lines

C10_Witness ==
    /\ op.name = "sort" /\ ret.status = "ok" /\ op.reverse
    /\ op.keys = <<Name(N_count), Col(0)>> /\ op.dtype = "unicode"
    /\ ds[1]._lines = List(<<strip(L_10a_nl), L_2a, L_3b>>)

-----------------------------------------------------------------------------
(* Properties of the regions *)

\* C3: a sort that fails in key extraction or casting leaves primary as it
\* was: read(primary) after it yields what read(primary) before it would
\* have yielded.
C3_FailedSortLeavesPrimary ==
    [][ (/\ op'.name = "sort" /\ op'.d = 1
         /\ ret'.status \in {"ConfigurationError", "CastError"}) =>
          primary(ds', gens', 1) = primary(ds, gens, 1) ]_vars

\* C4: read and lines of either region never raise.
C4_ReadNeverFails ==
    op.name \in {"read", "lines"} => ret.status = "ok"

\* C5: after write(S, R, lazy=false), read(R) yields exactly S and leaves R
\* as it is, so that every further read(R) yields S again; the read that
\* follows such a write returns S.
C5_WriteThenRead ==
    [][ /\ (op'.name = "write" /\ op'.d = 1 /\ ~op'.lazy) =>
             LET r == read(ds'[1], gens', op'.tmp)
             IN  /\ r.ret = [status |-> "ok", value |-> op'.it]
                 /\ r.self = ds'[1]
                 /\ r.gens = gens'
        /\ (/\ op.name = "write" /\ ~op.lazy
            /\ op'.name = "read" /\ op'.tmp = op.tmp) =>
             /\ ret' = [status |-> "ok", value |-> op.it]
             /\ ds' = ds ]_vars

C5_Witness ==
    /\ op.name = "read" /\ op.tmp /\ ret.status = "ok"
    /\ ret.value = <<L_1a, L_x>>
    /\ ds[1]._tmplines = List(<<L_1a, L_x>>)
    /\ ds[1]._lines.kind = "list" /\ ds[1]._lines.items # <<L_1a, L_x>>

\* C6: mv_tmp leaves in staged what primary held just before the call, and
\* nothing else, and leaves primary an empty list.
C6_MvTmpMoves ==
    [][ (op'.name = "mv_tmp" /\ op'.d = 1) =>
          /\ ret'.status = "ok"
          /\ ds'[1]._tmplines.kind = ds[1]._lines.kind
          /\ staged(ds', gens', 1) = primary(ds, gens, 1)
          /\ ds'[1]._lines = List(<<>>) ]_vars

C6_Witness ==
    /\ op.name = "mv_tmp"
    /\ ds[1]._tmplines = List(<<L_1a, L_x>>)
    /\ ds[1]._lines = List(<<>>)

\* C7: length() is rejected, or it leaves primary such that a following
\* read(primary) yields as many lines as it counted and a second length()
\* returns the same number.
C7_LengthKeepsPrimary ==
    [][ (op'.name = "__len__" /\ op'.d = 1) =>
          \/ ret'.status # "ok"
          \/ /\ Len(primary(ds', gens', 1)) = ret'.value
             /\ __len__(ds'[1], gens').ret = ret' ]_vars

-----------------------------------------------------------------------------
(* Properties of copy *)

\* the regions and the header of dataset d, as a caller can observe them
view(dsv, g, d) ==
    [exists |-> dsv[d].exists,
     primary |-> primary(dsv, g, d),
     staged_set |-> dsv[d]._tmplines.kind # "unset",
     staged |-> staged(dsv, g, d),
     header |-> dsv[d].header]

the_other(d) == CHOOSE e \in DS : e # d

-----------------------------------------------------------------------------
(* Properties of length, clearing, the disk-only methods, construction *)

\* C11: after write(S, R, lazy=false) the region R holds as many lines as S
\* has; for the primary region that number is what length() returns, also
\* in the call of length() that follows the write.
C11_WriteThenLength ==
    [][ /\ (op'.name = "write" /\ op'.d = 1 /\ ~op'.lazy) =>
             /\ op'.tmp => /\ read(ds'[1], gens', TRUE).ret.status = "ok"
                           /\ Len(read(ds'[1], gens', TRUE).ret.value)
                                = Len(op'.it)
             /\ ~op'.tmp => __len__(ds'[1], gens').ret
                              = [status |-> "ok", value |-> Len(op'.it)]
        /\ (/\ op.name = "write" /\ ~op.lazy /\ ~op.tmp
            /\ op'.name = "__len__") =>
             ret' = [status |-> "ok", value |-> Len(op.it)] ]_vars

C11_Witness ==
    /\ op.name = "__len__" /\ ret.status = "ok" /\ ret.value = 2
    /\ ds[1]._lines = List(<<L_1a, L_x>>)
    /\ ds[1]._tmplines = List(<<L_3b, L_1a, L_2a>>)

\* C12: where primary and staged are not empty, mv_tmp() followed at once by
\* rm_tmp() leaves both regions empty: a read of either yields no line and
\* length() is 0.
both_empty(self, g) ==
    /\ read(self, g, FALSE).ret = [status |-> "ok", value |-> <<>>]
    /\ read(self, g, TRUE).ret = [status |-> "ok", value |-> <<>>]
    /\ __len__(self, g).ret = [status |-> "ok", value |-> 0]

C12_MvTmpRmTmpEmpties ==
    [][ /\ (/\ op'.name = "mv_tmp"
            /\ primary(ds, gens, 1) # <<>> /\ staged(ds, gens, 1) # <<>>) =>
             both_empty(rm_tmp(ds'[1], gens').self, rm_tmp(ds'[1], gens').gens)
        /\ (op.name = "mv_tmp" /\ op'.name = "rm_tmp") =>
             both_empty(ds'[1], gens') ]_vars

C12_Witness ==
    /\ op.name = "rm_tmp"
    /\ ds[1]._lines = List(<<>>) /\ ds[1]._tmplines = List(<<>>)
    /\ ret.status = "ok"

\* C13: get_new_path, rename, cp and cat raise NotImplementedError in every
\* state and change nothing.
C13_DiskOnlyUnsupported ==
    [][ op'.name \in {"get_new_path", "rename", "cp", "cat"} =>
          /\ ret'.status = "NotImplementedError"
          /\ ds' = ds
          /\ gens' = gens ]_vars

C13_Witness ==
    /\ op.name = "rename" /\ ret.status = "NotImplementedError"
    /\ ds[1]._lines.kind = "gen" /\ primary(ds, gens, 1) # <<>>
    /\ ds[1]._tmplines.kind = "list" /\ staged(ds, gens, 1) # <<>>

\* the names of the sources that are not index files, in source order
not_index(f) == ~endswith(f, IdfSuffix)

RECURSIVE concat_files(_)
concat_files(names) ==
    IF names = <<>> THEN <<>>
    ELSE file_lines(Head(names)) \o concat_files(Tail(names))

\* C14: after construction primary holds the lines of every source whose
\* name does not end in ".idf", in source order; an index file contributes
\* no line; length() is the number of those lines; one name given as a str
\* stands for the list of that one name.
C14_ConstructSkipsIndexFiles ==
    op.name = "__init__" =>
        LET names == IF op.files.isstr THEN <<op.files.str>>
                     ELSE op.files.list
            expected == concat_files(SelectSeq(names, not_index))
        IN  /\ ds[1]._lines = List(expected)
            /\ \A i \in 1 .. Len(ds[1]._lines.items) :
                  ds[1]._lines.items[i] # L_i0_nl
            /\ __len__(ds[1], gens).ret
                 = [status |-> "ok", value |-> Len(expected)]
            /\ ds[1].files = names

C14_Witness ==
    /\ op.name = "__init__"
    /\ op.files.list = <<F_b_txt, F_a_idf, F_a_txt>>
    /\ ds[1]._lines = List(<<L_x_nl, L_3b_nl, L_1a_nl>>)

-----------------------------------------------------------------------------
(* Properties of the two regions together *)

\* region R (staged when tmp, primary otherwise) is materialized: two
\* consecutive reads of it yield the same sequence
materialized(dsv, g, tmp) ==
    LET r1 == read(dsv[1], g, tmp)
        r2 == read(r1.self, r1.gens, tmp)
    IN  r1.ret.status = "ok" /\ r2.ret = r1.ret

\* C15: a region that is materialized stays materialized under every call
\* that is not a write(..., lazy=true) to that region.
C15_OnlyLazyWriteMakesSinglePass ==
    [][ \A tmp \in BOOLEAN :
          (/\ materialized(ds, gens, tmp)
           /\ ~(op'.name = "write" /\ op'.lazy /\ op'.tmp = tmp))
          => materialized(ds', gens', tmp) ]_vars

\* region R of dataset 1 as an attribute value, whatever the identity of a
\* generator it refers to
region(dsv, g, tmp) ==
    LET v == IF tmp THEN dsv[1]._tmplines ELSE dsv[1]._lines
    IN  [kind |-> v.kind, items |-> iterate(v, g)]

\* C16: write to primary, sort and length leave staged as it is; write to
\* staged, rm_tmp and delete_tmp leave primary as it is; rm_tmp and
\* delete_tmp have the same effect, an empty staged region.
C16_RegionsIndependent ==
    [][ /\ (\/ op'.name \in {"sort", "__len__"}
            \/ (op'.name = "write" /\ ~op'.tmp)) =>
             region(ds', gens', TRUE) = region(ds, gens, TRUE)
        /\ (\/ op'.name \in {"rm_tmp", "delete_tmp"}
            \/ (op'.name = "write" /\ op'.tmp)) =>
             region(ds', gens', FALSE) = region(ds, gens, FALSE)
        /\ op'.name \in {"rm_tmp", "delete_tmp"} =>
             /\ ds'[1]._tmplines = List(<<>>)
             /\ rm_tmp(ds[1], gens) = delete_tmp(ds[1], gens) ]_vars

C16_Witness ==
    /\ op.name = "delete_tmp"
    /\ ds[1]._tmplines = List(<<>>)
    /\ ds[1]._lines.kind = "gen"
    /\ primary(ds, gens, 1) = <<L_3b, L_1a, L_2a>>

-----------------------------------------------------------------------------
(* Properties of column references and of the header *)

\* the keys name a column the header of the dataset does not have
unknown_column(header, keys) ==
    \E i \in 1 .. Len(keys) :
        /\ ~keys[i].isint
        /\ \/ header.isNone
           \/ \A j \in 1 .. Len(header.names) : header.names[j] # keys[i].s

\* the integer columns the keys stand for under the header "word count"
word_count_columns(keys) ==
    [i \in 1 .. Len(keys) |->
        IF keys[i].isint THEN Col(keys[i].n)
        ELSE IF keys[i].s = N_word THEN Col(0) ELSE Col(1)]

-----------------------------------------------------------------------------
(* Properties of lines *)

\* what lines() yields for the stored lines its
lines_of(its, parts) ==
    IF parts THEN [i \in 1 .. Len(its) |-> split(strip(its[i]))]
    ELSE [i \in 1 .. Len(its) |-> strip(its[i])]

\* a call of lines on a region that has been assigned
lines_returned(tmp) ==
    /\ op'.name = "lines" /\ op'.tmp = tmp
    /\ region(ds, gens, tmp).kind # "unset"

\* one output per stored line, in order, stripped or split; a list region
\* is left as it is and yields the same again
lines_yields_region ==
    \A tmp \in BOOLEAN :
       lines_returned(tmp) =>
         /\ ret' = [status |-> "ok",
                    value |-> lines_of(region(ds, gens, tmp).items,
                                       op'.parts)]
         /\ region(ds, gens, tmp).kind = "list" =>
               /\ ds' = ds
               /\ lines(ds'[1], gens', tmp, op'.parts).ret = ret'

\* after the call that follows a lazy write of S, S has been yielded once
\* and every later lines() or read() yields nothing, without error
lazy_region_yields_once ==
    /\ ret'.value = lines_of(op.it, op'.parts)
    /\ lines(ds'[1], gens', op'.tmp, op'.parts).ret
         = [status |-> "ok", value |-> <<>>]
    /\ read(ds'[1], gens', op'.tmp).ret = [status |-> "ok", value |-> <<>>]
    /\ LET r == read(ds'[1], gens', op'.tmp)
       IN  read(r.self, r.gens, op'.tmp).ret
             = [status |-> "ok", value |-> <<>>]

-----------------------------------------------------------------------------
(* Sort keeps the lines *)

\* C19: a sort that returns leaves in primary a list with as many lines as
\* primary yielded before, the same lines stripped, each as often as before,
\* and two consecutive reads of primary yield the same, also when primary was
\* stored by write(..., lazy=true).
C19_SortKeepsLines ==
    [][ sort_returned =>
          /\ ds'[1]._lines.kind = "list"
          /\ Len(primary(ds', gens', 1)) = Len(primary(ds, gens, 1))
          /\ same_lines(primary(ds', gens', 1),
                        stripped(primary(ds, gens, 1)))
          /\ materialized(ds', gens', FALSE) ]_vars

C19_Witness ==
    /\ op.name = "sort" /\ ret.status = "ok"
    /\ op.keys = <<Name(N_count)>>
    /\ ds[1]._lines = List(<<L_1a, L_3b>>)

-----------------------------------------------------------------------------
(* Staged reads after the staged region has been assigned *)

\* the call made last assigned the staged region a list or moved primary
stored_staged ==
    \/ op.name \in {"mv_tmp", "rm_tmp", "delete", "delete_tmp"}
    \/ (op.name = "write" /\ op.tmp /\ ~op.lazy)

\* what that call stored: the lines written, nothing, or (mv_tmp) the
\* lines staged holds right after the move
stored_lines ==
    IF op.name = "write" THEN op.it
    ELSE IF op.name = "mv_tmp" THEN staged(ds, gens, 1)
    ELSE <<>>

\* C20: once mv_tmp, rm_tmp, delete, delete_tmp or a write to staged has
\* completed, staged reads succeed from then on and yield what the most
\* recent of these calls stored: the read after such a call yields it, and
\* so does the read after that.
C20_StagedReadsAfterStore ==
    [][ /\ (stored_staged /\ op'.name = "read" /\ op'.tmp) =>
             /\ ret' = [status |-> "ok", value |-> stored_lines]
             /\ read(ds'[1], gens', TRUE).ret = ret'
        /\ (stored_staged /\ op'.name = "lines" /\ op'.tmp) =>
             /\ ret' = [status |-> "ok",
                        value |-> lines_of(stored_lines, op'.parts)]
             /\ lines(ds'[1], gens', TRUE, op'.parts).ret = ret'
        /\ (ds[1]._tmplines.kind # "unset" /\ op'.tmp
            /\ op'.name \in {"read", "lines"}) =>
             ret'.status = "ok"
        /\ ds[1]._tmplines.kind # "unset" =>
             ds'[1]._tmplines.kind # "unset" ]_vars

====
